---------------------------- MODULE Spec2Model ----------------------------
(***************************************************************************)
(* Task backend: sequential identifier allocation (T-001, T-002, ...),     *)
(* the value objects and mapper that guard every write path, the task      *)
(* service, and the repository's round trips to the document store.        *)
(*                                                                         *)
(* Strings are sequences of one-character strings.  A JavaScript value is  *)
(* a record [kind, s]: kind is its typeof ("string", "number",             *)
(* "undefined", "null") and s its characters when it is a string.          *)
(***************************************************************************)
EXTENDS Integers, Sequences, FiniteSets, TLC

(***************************************************************************)
(* Bounds of the model.                                                    *)
(***************************************************************************)
MaxReqs == 3
MaxClock == 1
MaxHttpReqs == 2

(***************************************************************************)
(* JavaScript values and strings.                                          *)
(***************************************************************************)
Str(s) == [kind |-> "string", s |-> s]
Undefined == [kind |-> "undefined", s |-> <<>>]
Null == [kind |-> "null", s |-> <<>>]
NumberValue == [kind |-> "number", s |-> <<>>]

DigitChars == <<"0", "1", "2", "3", "4", "5", "6", "7", "8", "9">>

IsDigit(c) == \E i \in 1..Len(DigitChars) : DigitChars[i] = c

DigitVal(c) == (CHOOSE i \in 1..Len(DigitChars) : DigitChars[i] = c) - 1

IsSpace(c) == c \in {" ", "\t"}

RECURSIVE TrimStart(_)
TrimStart(s) ==
    IF s = <<>> THEN <<>>
    ELSE IF IsSpace(Head(s)) THEN TrimStart(Tail(s)) ELSE s

RECURSIVE TrimEnd(_)
TrimEnd(s) ==
    IF s = <<>> THEN <<>>
    ELSE IF IsSpace(s[Len(s)]) THEN TrimEnd(SubSeq(s, 1, Len(s) - 1)) ELSE s

\* String.prototype.trim
Trim(s) == TrimEnd(TrimStart(s))

\* String(n) for a non-negative integer
RECURSIVE NumToString(_)
NumToString(n) ==
    IF n < 10 THEN <<DigitChars[n + 1]>>
    ELSE NumToString(n \div 10) \o <<DigitChars[(n % 10) + 1]>>

\* String.prototype.padStart with a one-character filler
RECURSIVE PadStart(_, _, _)
PadStart(s, len, c) ==
    IF Len(s) >= len THEN s ELSE PadStart(<<c>> \o s, len, c)

\* parseInt(s, 10) on a string of decimal digits
RECURSIVE ParseInt(_)
ParseInt(s) ==
    IF s = <<>> THEN 0
    ELSE 10 * ParseInt(SubSeq(s, 1, Len(s) - 1)) + DigitVal(s[Len(s)])

(***************************************************************************)
(* utils/IdGenerator.ts                                                    *)
(***************************************************************************)
DEFAULT_PREFIX == <<"T">>

MaxSequence == 999

RegExpSpecials == {".", "*", "+", "?", "^", "$", "{", "}", "(", ")", "|", "[", "]", "\\"}

\* An escape that leaves every character as it is
escapeNothing(str) == str

\* escapeForRegExp: every special character gets a backslash in front
RECURSIVE escapeForRegExp(_)
escapeForRegExp(str) ==
    IF str = <<>> THEN <<>>
    ELSE (IF Head(str) \in RegExpSpecials THEN <<"\\", Head(str)>> ELSE <<Head(str)>>)
         \o escapeForRegExp(Tail(str))

\* The pattern source read as a regular expression: a backslash makes the
\* next character a literal, an unescaped dot matches any character.
RECURSIVE CompilePrefix(_)
CompilePrefix(src) ==
    IF src = <<>> THEN <<>>
    ELSE IF Head(src) = "\\" /\ Len(src) >= 2
         THEN <<[k |-> "lit", c |-> src[2]]>> \o CompilePrefix(SubSeq(src, 3, Len(src)))
    ELSE IF Head(src) = "."
         THEN <<[k |-> "any", c |-> "."]>> \o CompilePrefix(Tail(src))
    ELSE <<[k |-> "lit", c |-> Head(src)]>> \o CompilePrefix(Tail(src))

\* new RegExp(`^${escaped}-(\\d{3})$`) as a sequence of one-character tokens
createIdPattern(prefix) ==
    CompilePrefix(escapeForRegExp(prefix))
        \o <<[k |-> "lit", c |-> "-"]>>
        \o [i \in 1..3 |-> [k |-> "digit", c |-> "d"]]

TokenMatches(tok, c) ==
    CASE tok.k = "lit" -> c = tok.c
      [] tok.k = "any" -> TRUE
      [] tok.k = "digit" -> IsDigit(c)

\* pattern.test(s) for an anchored pattern of one-character tokens
PatternTest(pattern, s) ==
    /\ Len(s) = Len(pattern)
    /\ \A i \in 1..Len(s) : TokenMatches(pattern[i], s[i])

generateFirstId(prefix) == prefix \o <<"-", "0", "0", "1">>

\* generateNextId without the overflow check
generateNextIdUnchecked(maxSequence, prefix) ==
    [threw |-> FALSE, message |-> "",
     id |-> prefix \o <<"-">> \o PadStart(NumToString(maxSequence + 1), 3, "0")]

\* generateNextId without the padding to three digits
generateNextIdUnpadded(maxSequence, prefix) ==
    LET next == maxSequence + 1 IN
    IF next > MaxSequence
    THEN [threw |-> TRUE, message |-> "ID sequence overflow: exceeds 999", id |-> <<>>]
    ELSE [threw |-> FALSE, message |-> "", id |-> prefix \o <<"-">> \o NumToString(next)]

\* generateNextId that already overflows at 999
generateNextIdOverflowingEarly(maxSequence, prefix) ==
    LET next == maxSequence + 1 IN
    IF next >= MaxSequence
    THEN [threw |-> TRUE, message |-> "ID sequence overflow: exceeds 999", id |-> <<>>]
    ELSE [threw |-> FALSE, message |-> "",
          id |-> prefix \o <<"-">> \o PadStart(NumToString(next), 3, "0")]

\* generateNextId: an overflow throws, every other input yields an identifier
generateNextId(maxSequence, prefix) ==
    LET next == maxSequence + 1 IN
    IF next > MaxSequence
    THEN [threw |-> TRUE, message |-> "ID sequence overflow: exceeds 999", id |-> <<>>]
    ELSE [threw |-> FALSE, message |-> "",
          id |-> prefix \o <<"-">> \o PadStart(NumToString(next), 3, "0")]

NoSequence == -1

\* extractSequenceNumber: the captured three digits as a number, or null
extractSequenceNumber(id, prefix) ==
    IF PatternTest(createIdPattern(prefix), id)
    THEN ParseInt(SubSeq(id, Len(id) - 2, Len(id)))
    ELSE NoSequence

(***************************************************************************)
(* core/logic/Guard and Result.  A Result is [isFailure, error, value].    *)
(***************************************************************************)
Ok(v) == [isFailure |-> FALSE, error |-> "", value |-> v]
Fail(msg) == [isFailure |-> TRUE, error |-> msg, value |-> <<>>]

IsNullOrUndefined(v) == v.kind \in {"null", "undefined"}

\* `${argumentName} is null or undefined`
NullOrUndefinedMessage(argumentName) ==
    CASE argumentName = "taskId" -> "taskId is null or undefined"
      [] argumentName = "title" -> "title is null or undefined"
      [] argumentName = "TaskTitle" -> "TaskTitle is null or undefined"
      [] argumentName = "TaskStatus" -> "TaskStatus is null or undefined"

againstNullOrUndefined(v, argumentName) ==
    IF IsNullOrUndefined(v)
    THEN [succeeded |-> FALSE, message |-> NullOrUndefinedMessage(argumentName)]
    ELSE [succeeded |-> TRUE, message |-> ""]

(***************************************************************************)
(* Value objects.  A created TaskID or TaskTitle is its canonical string.  *)
(* The factories are applied to strings, null and undefined only (every    *)
(* caller checks typeof first or passes a stored string).                  *)
(***************************************************************************)
\* A TaskID.create that tests the string as given and keeps it
TaskIDCreateUntrimmed(id) ==
    LET guardResult == againstNullOrUndefined(id, "taskId") IN
    IF ~guardResult.succeeded THEN Fail(guardResult.message)
    ELSE IF ~PatternTest(createIdPattern(DEFAULT_PREFIX), id.s)
         THEN Fail("incidentTypeId must match pattern T-INC###")
         ELSE Ok(id.s)

TaskIDCreate(id) ==
    LET guardResult == againstNullOrUndefined(id, "taskId") IN
    IF ~guardResult.succeeded THEN Fail(guardResult.message)
    ELSE LET trimmed == Trim(id.s) IN
         IF ~PatternTest(createIdPattern(DEFAULT_PREFIX), trimmed)
         THEN Fail("incidentTypeId must match pattern T-INC###")
         ELSE Ok(trimmed)

TaskTitleCreate(value) ==
    LET guardResult == againstNullOrUndefined(value, "TaskTitle") IN
    IF ~guardResult.succeeded THEN Fail(guardResult.message)
    ELSE LET trimmed == Trim(value.s) IN
         IF Len(trimmed) = 0 THEN Fail("Task title cannot be empty")
         ELSE Ok(trimmed)

\* TaskStatus.create is given a boolean by every caller
TaskStatusCreate(value) == Ok(value)

(***************************************************************************)
(* Task aggregate.  props is [taskId, title, status, DateCreated] where    *)
(* taskId and title are value objects ([kind |-> "object", s]) or raw      *)
(* values, and status is [present, value].                                 *)
(***************************************************************************)
Vo(s) == [kind |-> "object", s |-> s]
NoStatus == [present |-> FALSE, value |-> FALSE]
StatusOf(b) == [present |-> TRUE, value |-> b]

\* The presence check of Task.create: taskId and title are required, status
\* is optional.
TaskCreateGuard(props) ==
    IF IsNullOrUndefined(props.taskId)
    THEN againstNullOrUndefined(props.taskId, "taskId")
    ELSE againstNullOrUndefined(props.title, "title")

\* A Task.create whose default status is true
TaskCreateDefaultingDone(props) ==
    LET guardResult == TaskCreateGuard(props)
        titleOrError == IF props.title.kind = "string" THEN TaskTitleCreate(props.title)
                        ELSE Ok(props.title.s)
        taskIdOrError == IF props.taskId.kind = "string" THEN TaskIDCreate(props.taskId)
                         ELSE Ok(props.taskId.s)
        status == IF props.status.present THEN props.status.value ELSE TRUE
    IN  IF ~guardResult.succeeded THEN Fail(guardResult.message)
        ELSE IF titleOrError.isFailure THEN Fail(titleOrError.error)
        ELSE IF taskIdOrError.isFailure THEN Fail(taskIdOrError.error)
        ELSE Ok([taskId |-> taskIdOrError.value, title |-> titleOrError.value,
                 status |-> status, dateCreated |-> props.DateCreated])

TaskCreate(props) ==
    LET guardResult == TaskCreateGuard(props)
        titleOrError == IF props.title.kind = "string" THEN TaskTitleCreate(props.title)
                        ELSE Ok(props.title.s)
        taskIdOrError == IF props.taskId.kind = "string" THEN TaskIDCreate(props.taskId)
                         ELSE Ok(props.taskId.s)
        status == IF props.status.present THEN props.status.value
                  ELSE TaskStatusCreate(FALSE).value
    IN  IF ~guardResult.succeeded THEN Fail(guardResult.message)
        ELSE IF titleOrError.isFailure THEN Fail(titleOrError.error)
        ELSE IF taskIdOrError.isFailure THEN Fail(taskIdOrError.error)
        ELSE Ok([taskId |-> taskIdOrError.value, title |-> titleOrError.value,
                 status |-> status, dateCreated |-> props.DateCreated])

(***************************************************************************)
(* mappers/TaskMapper.ts.  A stored document is                            *)
(* [taskId, title, status, dateCreated]; a missing document (null) is      *)
(* NoDoc.  toDomain returns [isNull, task].                                *)
(***************************************************************************)
NoDoc == [taskId |-> <<>>, title |-> <<>>, status |-> FALSE, dateCreated |-> 0,
          missing |-> TRUE]
NoTask == [taskId |-> <<>>, title |-> <<>>, status |-> FALSE, dateCreated |-> 0]
NullTask == [isNull |-> TRUE, task |-> NoTask]

IsMissing(raw) == "missing" \in DOMAIN raw

toDomain(raw) ==
    IF IsMissing(raw) THEN NullTask
    ELSE LET taskIdResult == TaskIDCreate(Str(raw.taskId))
             titleResult == TaskTitleCreate(Str(raw.title))
             statusResult == TaskStatusCreate(raw.status)
         IN  IF taskIdResult.isFailure THEN NullTask
             ELSE IF titleResult.isFailure THEN NullTask
             ELSE IF statusResult.isFailure THEN NullTask
             ELSE LET task == TaskCreate([taskId |-> Vo(taskIdResult.value),
                                          title |-> Vo(titleResult.value),
                                          status |-> StatusOf(statusResult.value),
                                          DateCreated |-> raw.dateCreated])
                  IN  IF task.isFailure THEN NullTask
                      ELSE [isNull |-> FALSE, task |-> task.value]

\* A toPersistence that stores every task as not completed
toPersistenceWithoutStatus(task) ==
    [taskId |-> task.taskId, title |-> task.title, status |-> FALSE,
     dateCreated |-> task.dateCreated]

toPersistence(task) ==
    [taskId |-> task.taskId, title |-> task.title, status |-> task.status,
     dateCreated |-> task.dateCreated]

\* Date.prototype.toISOString of the timestamp
toISOString(date) == <<"iso", date>>

toDTO(task) ==
    [id |-> task.taskId, title |-> task.title, status |-> task.status,
     dateCreated |-> toISOString(task.dateCreated)]

(***************************************************************************)
(* The document store (the tasks collection) and its single-document       *)
(* operations, each of which the store executes atomically.                *)
(***************************************************************************)
Matching(docs, taskId) == {d \in docs : d.taskId = taskId}

\* A sort by dateCreated ascending
RECURSIVE SortedAsc(_)
SortedAsc(docs) ==
    IF docs = {} THEN {<<>>}
    ELSE UNION {{<<d>> \o rest : rest \in SortedAsc(docs \ {d})} :
                d \in {x \in docs : \A y \in docs : x.dateCreated <= y.dateCreated}}

\* find({}).sort({dateCreated: -1}): every order of the documents that is
\* descending in dateCreated (the store breaks ties as it likes)
RECURSIVE SortedDesc(_)
SortedDesc(docs) ==
    IF docs = {} THEN {<<>>}
    ELSE UNION {{<<d>> \o rest : rest \in SortedDesc(docs \ {d})} :
                d \in {x \in docs : \A y \in docs : y.dateCreated <= x.dateCreated}}

\* findOne({taskId}): a matching document, or null
FindOne(docs, taskId) ==
    IF Matching(docs, taskId) = {} THEN {NoDoc} ELSE Matching(docs, taskId)

\* An insert that leaves an existing document as it is
UpsertKeepingExisting(docs, raw) ==
    IF Matching(docs, raw.taskId) = {}
    THEN {[docs |-> docs \cup {raw}, doc |-> raw]}
    ELSE {[docs |-> docs, doc |-> d] : d \in Matching(docs, raw.taskId)}

\* A save that inserts without looking for a document to update
UpsertAlwaysInserting(docs, raw) == {[docs |-> docs \cup {raw}, doc |-> raw]}

\* A save that replaces the whole collection by the document written
UpsertReplacingAll(docs, raw) == {[docs |-> {raw}, doc |-> raw]}

\* findOneAndUpdate({taskId}, {$set: {title, status, dateCreated},
\* $setOnInsert: {taskId}}, {upsert: true, new: true})
Upsert(docs, raw) ==
    IF Matching(docs, raw.taskId) = {}
    THEN {[docs |-> docs \cup {raw}, doc |-> raw]}
    ELSE {LET updated == [d EXCEPT !.title = raw.title, !.status = raw.status,
                                   !.dateCreated = raw.dateCreated]
          IN  [docs |-> (docs \ {d}) \cup {updated}, doc |-> updated] :
          d \in Matching(docs, raw.taskId)}

\* An update that marks the task completed whatever status it is given
UpdateStatusMarkingDone(docs, taskId, status) ==
    IF Matching(docs, taskId) = {}
    THEN {[docs |-> docs, doc |-> NoDoc]}
    ELSE {LET updated == [d EXCEPT !.status = TRUE]
          IN  [docs |-> (docs \ {d}) \cup {updated}, doc |-> updated] :
          d \in Matching(docs, taskId)}

\* An update with {upsert: true}: a missing document is created
UpdateStatusUpserting(docs, taskId, status) ==
    IF Matching(docs, taskId) = {}
    THEN {LET created == [taskId |-> taskId, title |-> <<>>, status |-> status,
                          dateCreated |-> 0]
          IN  [docs |-> docs \cup {created}, doc |-> created]}
    ELSE {LET updated == [d EXCEPT !.status = status]
          IN  [docs |-> (docs \ {d}) \cup {updated}, doc |-> updated] :
          d \in Matching(docs, taskId)}

\* An update whose filter matches every document
UpdateStatusOfAll(docs, taskId, status) ==
    IF Matching(docs, taskId) = {}
    THEN {[docs |-> docs, doc |-> NoDoc]}
    ELSE {[docs |-> {[x EXCEPT !.status = status] : x \in docs},
           doc |-> [d EXCEPT !.status = status]] : d \in Matching(docs, taskId)}

\* findOneAndUpdate({taskId}, {$set: {status}}, {new: true})
UpdateStatus(docs, taskId, status) ==
    IF Matching(docs, taskId) = {}
    THEN {[docs |-> docs, doc |-> NoDoc]}
    ELSE {LET updated == [d EXCEPT !.status = status]
          IN  [docs |-> (docs \ {d}) \cup {updated}, doc |-> updated] :
          d \in Matching(docs, taskId)}

\* A delete whose filter matches every document
DeleteEverything(docs, taskId) ==
    IF Matching(docs, taskId) = {}
    THEN {[docs |-> docs, deletedCount |-> 0]}
    ELSE {[docs |-> {}, deletedCount |-> Cardinality(docs)]}

\* deleteOne({taskId})
DeleteOne(docs, taskId) ==
    IF Matching(docs, taskId) = {}
    THEN {[docs |-> docs, deletedCount |-> 0]}
    ELSE {[docs |-> docs \ {d}, deletedCount |-> 1] : d \in Matching(docs, taskId)}

(***************************************************************************)
(* services/TaskService.ts: input validation and identifier allocation.    *)
(***************************************************************************)
\* validateTitle without the check for a title that is empty after trimming
validateTitleWithoutRequired(title) ==
    IF title.kind # "string" THEN Fail("title must be a string")
    ELSE LET titleOrError == TaskTitleCreate(title) IN
         IF titleOrError.isFailure THEN Fail(titleOrError.error)
         ELSE Ok(<<>>)

validateTitle(title) ==
    IF title.kind # "string" THEN Fail("title must be a string")
    ELSE IF Len(Trim(title.s)) = 0 THEN Fail("title is required")
    ELSE LET titleOrError == TaskTitleCreate(title) IN
         IF titleOrError.isFailure THEN Fail(titleOrError.error)
         ELSE Ok(<<>>)

\* validateTaskId without the format check
validateTaskIdWithoutFormat(taskId) ==
    IF taskId.kind # "string" THEN Fail("taskId must be a string")
    ELSE IF Len(Trim(taskId.s)) = 0 THEN Fail("taskId is required")
    ELSE Ok(<<>>)

validateTaskId(taskId) ==
    IF taskId.kind # "string" THEN Fail("taskId must be a string")
    ELSE IF Len(Trim(taskId.s)) = 0 THEN Fail("taskId is required")
    ELSE LET idCheck == TaskIDCreate(taskId) IN
         IF idCheck.isFailure THEN Fail(idCheck.error)
         ELSE Ok(<<>>)

Max(a, b) == IF a >= b THEN a ELSE b

\* all.map(extractSequenceNumber).filter(n !== null).reduce(Math.max, 0)
RECURSIVE MaxSeqOf(_)
MaxSeqOf(all) ==
    IF all = <<>> THEN 0
    ELSE LET n == extractSequenceNumber(Head(all).taskId, DEFAULT_PREFIX) IN
         IF n = NoSequence THEN MaxSeqOf(Tail(all)) ELSE Max(n, MaxSeqOf(Tail(all)))

\* A gap-filling allocator: the smallest sequence number not in use
generateTaskIdFillingGaps(all) ==
    LET used == {extractSequenceNumber(all[i].taskId, DEFAULT_PREFIX) : i \in 1..Len(all)}
        free == CHOOSE n \in 1..(Len(all) + 1) :
                    n \notin used /\ \A k \in 1..(n - 1) : k \in used
    IN  generateNextId(free - 1, DEFAULT_PREFIX)

\* generateTaskId, given what findAll returned
generateTaskId(all) ==
    LET maxSeq == MaxSeqOf(all) IN
    IF maxSeq = 0
    THEN [threw |-> FALSE, message |-> "", id |-> generateFirstId(DEFAULT_PREFIX)]
    ELSE generateNextId(maxSeq, DEFAULT_PREFIX)

\* TaskRepository.findAll, given the documents the query returned in order
RECURSIVE MapToDomain(_)
MapToDomain(docs) ==
    IF docs = <<>> THEN <<>>
    ELSE LET mapped == toDomain(Head(docs)) IN
         (IF mapped.isNull THEN <<>> ELSE <<mapped.task>>) \o MapToDomain(Tail(docs))

(***************************************************************************)
(* State.  docs is the tasks collection; clock is the wall clock read by   *)
(* new Date(); reqs holds the service calls in progress or just finished,  *)
(* one per slot, each with the position of its async function (pc), its    *)
(* locals and its result; limit is the number of calls the run lets        *)
(* overlap (1: sequential execution); started counts the calls of the run. *)
(* Bookkeeping for the properties: calls (the repository methods a call    *)
(* has invoked), seen (the writes other calls made to its target           *)
(* identifier between its read and its write), since (those made after it  *)
(* returned), and returned (the identifiers createTask has returned, in  *)
(* order).  A call made by a controller handler also carries the response  *)
(* the handler sent (http); a call whose repository call threw carries     *)
(* what was thrown (fault).  calc is the last direct call of a function of *)
(* the mapper, the value objects or the identifier generator, with its     *)
(* arguments and what it returned.                                         *)
(***************************************************************************)
VARIABLES docs, clock, reqs, limit, started, returned, calc

vars == <<docs, clock, reqs, limit, started, returned, calc>>

\* Two service calls can be in progress at a time
Slots == {1, 2}

NoDTO == toDTO(NoTask)
NoRes == [kind |-> "none", error |-> "", dto |-> NoDTO, value |-> FALSE, list |-> <<>>]
OkDTO(dto) == [kind |-> "ok", error |-> "", dto |-> dto, value |-> FALSE, list |-> <<>>]
OkValue(v) == [kind |-> "ok", error |-> "", dto |-> NoDTO, value |-> v, list |-> <<>>]
OkList(dtos) == [kind |-> "ok", error |-> "", dto |-> NoDTO, value |-> FALSE, list |-> dtos]
Failure(msg) == [kind |-> "fail", error |-> msg, dto |-> NoDTO, value |-> FALSE,
                 list |-> <<>>]

\* What a handler sends: res.status(n).json(body) or res.sendStatus(n)
NoResponse == [status |-> 0, error |-> "", dto |-> NoDTO, list |-> <<>>]
JsonError(status, msg) == [NoResponse EXCEPT !.status = status, !.error = msg]
JsonDTO(status, dto) == [NoResponse EXCEPT !.status = status, !.dto = dto]
JsonList(status, dtos) == [NoResponse EXCEPT !.status = status, !.list = dtos]
SendStatus(status) == [NoResponse EXCEPT !.status = status]

\* What a repository call can throw: an Error with a message, or a value
\* that is no Error
ErrorOf(msg) == [isError |-> TRUE, message |-> msg]
NotAnError == [isError |-> FALSE, message |-> ""]
Thrown == {ErrorOf("Database error"), ErrorOf("ns not found"), NotAnError}
NoFault == [call |-> "none", e |-> NotAnError]

NewReq == [op |-> "none", arg |-> Undefined, pc |-> "idle", title |-> <<>>,
           newId |-> <<>>, date |-> 0, cur |-> FALSE, res |-> NoRes,
           calls |-> {}, seen |-> <<>>, since |-> <<>>,
           http |-> NoResponse, fault |-> NoFault, sends |-> 0, next |-> <<>>]

\* Inputs of the run
TitleA == <<"a">>
TitleB == <<" ", "b", " ">>
Titles == {Str(TitleA), Str(TitleB), Str(<<" ">>), NumberValue}

\* The identifier T-NNN with sequence number n, written out digit by digit
IdOf(n) == <<"T", "-", DigitChars[(n \div 100) + 1], DigitChars[((n \div 10) % 10) + 1],
             DigitChars[(n % 10) + 1]>>
TaskIds == {Str(IdOf(1)), Str(IdOf(2)), Str(<<" ">> \o IdOf(1)),
            Str(<<"T", "-", "0", "1">>), Str(<<" ">>), NumberValue}

\* Stores a run can start from: tasks created earlier by this service
InitSeqs == {{}, {1}, {1, 3}, {1, 999}}
InitDoc(n) == [taskId |-> IdOf(n), title |-> TitleA, status |-> (n = 3),
               dateCreated |-> 0]
InitStores == {{InitDoc(n) : n \in S} : S \in InitSeqs}

\* No function has been called directly
NoCalc == [fn |-> "none"]

Init ==
    /\ docs \in InitStores
    /\ clock = 0
    /\ limit \in {1, Cardinality(Slots)}
    /\ reqs = [r \in Slots |-> NewReq]
    /\ started = 0
    /\ returned = <<>>
    /\ calc = NoCalc

InFlight == {r \in Slots : reqs[r].pc \notin {"idle", "done", "sent"}}

\* A call can start in a slot whose previous call has returned, while fewer
\* than limit calls are in flight
CanStart(r) ==
    /\ reqs[r].pc \in {"idle", "done", "sent"}
    /\ started < MaxReqs
    /\ Cardinality(InFlight) < limit

\* The identifier a call writes
Target(q) ==
    CASE q.op = "create" -> q.newId
      [] q.op \in {"toggle", "delete"} -> q.arg.s
      [] OTHER -> <<>>

HasRead(q) == q.pc \in {"build", "save", "update"}

\* reqs after call r moved to next and wrote the document stored under taskId
AfterWrite(r, next, what, taskId) ==
    [x \in Slots |->
        IF x = r THEN next
        ELSE IF HasRead(reqs[x]) /\ Target(reqs[x]) = taskId
             THEN [reqs[x] EXCEPT !.seen = Append(@, what)]
        ELSE IF reqs[x].pc = "done" /\ Target(reqs[x]) = taskId
             THEN [reqs[x] EXCEPT !.since = Append(@, what)]
        ELSE reqs[x]]

(***************************************************************************)
(* createTask                                                              *)
(***************************************************************************)
\* createTask up to its first await: validation, then findAll is called
StartCreate(r, title) ==
    /\ CanStart(r)
    /\ started' = started + 1
    /\ LET validation == validateTitle(title)
           titleOrError == TaskTitleCreate(title)
           q == [NewReq EXCEPT !.op = "create", !.arg = title]
       IN  reqs' = [reqs EXCEPT ![r] =
                IF validation.isFailure
                THEN [q EXCEPT !.pc = "done", !.res = Failure(validation.error)]
                ELSE IF titleOrError.isFailure
                THEN [q EXCEPT !.pc = "done", !.res = Failure(titleOrError.error)]
                ELSE [q EXCEPT !.pc = "findAll", !.title = titleOrError.value,
                               !.calls = @ \cup {"findAll"}]]
    /\ UNCHANGED <<docs, clock, limit, calc, returned>>

\* The store answers findAll; generateTaskId computes the identifier
RepoFindAll(r) ==
    /\ reqs[r].pc = "findAll"
    /\ \E found \in SortedDesc(docs) :
         LET all == MapToDomain(found)
             newId == generateTaskId(all)
             taskIdOrError == TaskIDCreate(Str(newId.id))
         IN  reqs' = [reqs EXCEPT ![r] =
                  IF newId.threw
                  THEN [@ EXCEPT !.pc = "done", !.res = Failure(newId.message)]
                  ELSE IF taskIdOrError.isFailure
                  THEN [@ EXCEPT !.pc = "done", !.res = Failure(taskIdOrError.error)]
                  ELSE [@ EXCEPT !.pc = "build", !.newId = taskIdOrError.value]]
    /\ UNCHANGED <<docs, clock, limit, calc, started, returned>>

\* new Date() is read, the Task is built and save is called
CreateBuild(r) ==
    /\ reqs[r].pc = "build"
    /\ \E now \in {clock, clock + 1} :
         /\ now <= MaxClock
         /\ clock' = now
         /\ LET taskOrError == TaskCreate([taskId |-> Vo(reqs[r].newId),
                                           title |-> Vo(reqs[r].title),
                                           status |-> NoStatus,
                                           DateCreated |-> now])
            IN  reqs' = [reqs EXCEPT ![r] =
                     IF taskOrError.isFailure
                     THEN [@ EXCEPT !.pc = "done", !.res = Failure(taskOrError.error)]
                     ELSE [@ EXCEPT !.pc = "save", !.date = taskOrError.value.dateCreated,
                                    !.cur = taskOrError.value.status,
                                    !.calls = @ \cup {"save"}]]
    /\ UNCHANGED <<docs, limit, calc, started, returned>>

\* The store executes the upsert of TaskRepository.save; createTask returns
RepoSave(r) ==
    /\ reqs[r].pc = "save"
    /\ LET task == [taskId |-> reqs[r].newId, title |-> reqs[r].title,
                    status |-> reqs[r].cur, dateCreated |-> reqs[r].date]
           raw == toPersistence(task)
       IN  \E out \in Upsert(docs, raw) :
             LET domain == toDomain(out.doc)
                 next == IF domain.isNull
                         THEN [reqs[r] EXCEPT !.pc = "done",
                                  !.res = Failure("Failed to map persisted task to domain")]
                         ELSE [reqs[r] EXCEPT !.pc = "done",
                                  !.res = OkDTO(toDTO(domain.task))]
             IN  /\ docs' = out.docs
                 /\ reqs' = AfterWrite(r, next, "save", raw.taskId)
                 /\ returned' = IF domain.isNull THEN returned
                                ELSE Append(returned, next.res.dto.id)
    /\ UNCHANGED <<clock, limit, calc, started>>

(***************************************************************************)
(* toggleTaskStatus                                                        *)
(***************************************************************************)
StartToggle(r, taskId) ==
    /\ CanStart(r)
    /\ started' = started + 1
    /\ LET validation == validateTaskId(taskId)
           q == [NewReq EXCEPT !.op = "toggle", !.arg = taskId]
       IN  reqs' = [reqs EXCEPT ![r] =
                IF validation.isFailure
                THEN [q EXCEPT !.pc = "done", !.res = Failure(validation.error)]
                ELSE [q EXCEPT !.pc = "findOne", !.calls = @ \cup {"toggleStatus"}]]
    /\ UNCHANGED <<docs, clock, limit, calc, returned>>

\* A first round trip that goes on to the update when nothing was found
RepoToggleReadUnchecked(r) ==
    /\ reqs[r].pc = "findOne"
    /\ \E current \in FindOne(docs, reqs[r].arg.s) :
         reqs' = [reqs EXCEPT ![r] = [@ EXCEPT !.pc = "update", !.cur = current.status]]
    /\ UNCHANGED <<docs, clock, limit, calc, started, returned>>

\* TaskRepository.toggleStatus, first round trip: findOne
RepoToggleRead(r) ==
    /\ reqs[r].pc = "findOne"
    /\ \E current \in FindOne(docs, reqs[r].arg.s) :
         reqs' = [reqs EXCEPT ![r] =
             IF IsMissing(current)
             THEN [@ EXCEPT !.pc = "done", !.res = Failure("Task not found")]
             ELSE [@ EXCEPT !.pc = "update", !.cur = current.status]]
    /\ UNCHANGED <<docs, clock, limit, calc, started, returned>>

\* A second round trip that flips the status stored at the time of the write
RepoToggleWriteFlippingStored(r) ==
    /\ reqs[r].pc = "update"
    /\ \E current \in FindOne(docs, reqs[r].arg.s) :
       \E out \in UpdateStatus(docs, reqs[r].arg.s, ~current.status) :
         LET updated == toDomain(out.doc)
             next == IF updated.isNull
                     THEN [reqs[r] EXCEPT !.pc = "done", !.res = Failure("Task not found")]
                     ELSE [reqs[r] EXCEPT !.pc = "done", !.res = OkDTO(toDTO(updated.task))]
         IN  /\ docs' = out.docs
             /\ reqs' = IF IsMissing(out.doc) THEN [reqs EXCEPT ![r] = next]
                        ELSE AfterWrite(r, next, "toggle", reqs[r].arg.s)
    /\ UNCHANGED <<clock, limit, calc, started, returned>>

\* TaskRepository.toggleStatus, second round trip: findOneAndUpdate with the
\* negation of the status read; toggleTaskStatus returns
RepoToggleWrite(r) ==
    /\ reqs[r].pc = "update"
    /\ \E out \in UpdateStatus(docs, reqs[r].arg.s, ~reqs[r].cur) :
         LET updated == toDomain(out.doc)
             next == IF updated.isNull
                     THEN [reqs[r] EXCEPT !.pc = "done", !.res = Failure("Task not found")]
                     ELSE [reqs[r] EXCEPT !.pc = "done", !.res = OkDTO(toDTO(updated.task))]
         IN  /\ docs' = out.docs
             /\ reqs' = IF IsMissing(out.doc) THEN [reqs EXCEPT ![r] = next]
                        ELSE AfterWrite(r, next, "toggle", reqs[r].arg.s)
    /\ UNCHANGED <<clock, limit, calc, started, returned>>

(***************************************************************************)
(* deleteTask                                                              *)
(***************************************************************************)
StartDelete(r, taskId) ==
    /\ CanStart(r)
    /\ started' = started + 1
    /\ LET validation == validateTaskId(taskId)
           q == [NewReq EXCEPT !.op = "delete", !.arg = taskId]
       IN  reqs' = [reqs EXCEPT ![r] =
                IF validation.isFailure
                THEN [q EXCEPT !.pc = "done", !.res = Failure(validation.error)]
                ELSE [q EXCEPT !.pc = "deleteOne", !.calls = @ \cup {"delete"}]]
    /\ UNCHANGED <<docs, clock, limit, calc, returned>>

\* The store executes deleteOne; deleteTask returns
RepoDelete(r) ==
    /\ reqs[r].pc = "deleteOne"
    /\ \E out \in DeleteOne(docs, reqs[r].arg.s) :
         LET next == IF out.deletedCount > 0
                     THEN [reqs[r] EXCEPT !.pc = "done", !.res = OkValue(TRUE)]
                     ELSE [reqs[r] EXCEPT !.pc = "done", !.res = Failure("Task not found")]
         IN  /\ docs' = out.docs
             /\ reqs' = IF out.deletedCount > 0
                        THEN AfterWrite(r, next, "delete", reqs[r].arg.s)
                        ELSE [reqs EXCEPT ![r] = next]
    /\ UNCHANGED <<clock, limit, calc, started, returned>>

Next ==
    \E r \in Slots :
        \/ \E title \in Titles : StartCreate(r, title)
        \/ RepoFindAll(r)
        \/ CreateBuild(r)
        \/ RepoSave(r)
        \/ \E taskId \in TaskIds : StartToggle(r, taskId)
        \/ RepoToggleRead(r)
        \/ RepoToggleWrite(r)
        \/ \E taskId \in TaskIds : StartDelete(r, taskId)
        \/ RepoDelete(r)

Spec == Init /\ [][Next]_vars

\* Sequential execution: no two service calls overlap
SeqInit == Init /\ limit = 1

SeqSpec == SeqInit /\ [][Next]_vars

\* A record of the collection that TaskMapper.toDomain maps to null and
\* findAll therefore drops: a well-formed taskId with an empty title
ForeignDoc == [taskId |-> IdOf(2), title |-> <<>>, status |-> FALSE, dateCreated |-> 0]

\* Stores that hold such a record next to tasks created by this service
ForeignStores == {S \cup {ForeignDoc} : S \in InitStores}

ForeignInit ==
    /\ docs \in ForeignStores
    /\ clock = 0
    /\ limit = 1
    /\ reqs = [r \in Slots |-> NewReq]
    /\ started = 0
    /\ returned = <<>>
    /\ calc = NoCalc

\* Sequential execution on a collection that holds a record findAll drops
ForeignSpec == ForeignInit /\ [][Next]_vars

(***************************************************************************)
(* listTasks                                                               *)
(***************************************************************************)
\* listTasks up to its await: findAll is called
StartList(r) ==
    /\ CanStart(r)
    /\ started' = started + 1
    /\ reqs' = [reqs EXCEPT ![r] =
            [NewReq EXCEPT !.op = "list", !.pc = "listAll", !.calls = {"findAll"}]]
    /\ UNCHANGED <<docs, clock, limit, calc, returned>>

\* tasks.map((t) => TaskMapper.toDTO(t))
RECURSIVE MapToDTO(_)
MapToDTO(tasks) ==
    IF tasks = <<>> THEN <<>> ELSE <<toDTO(Head(tasks))>> \o MapToDTO(Tail(tasks))

\* The store answers findAll; listTasks returns the DTOs in that order
RepoListAll(r) ==
    /\ reqs[r].pc = "listAll"
    /\ \E found \in SortedDesc(docs) :
         reqs' = [reqs EXCEPT ![r] =
             [@ EXCEPT !.pc = "done", !.res = OkList(MapToDTO(MapToDomain(found)))]]
    /\ UNCHANGED <<docs, clock, limit, calc, started, returned>>

(***************************************************************************)
(* Storage failures: a call to the store throws, the repository method     *)
(* logs and rejects with what was thrown, the service operation catches.   *)
(***************************************************************************)
GenericMessage(op) ==
    CASE op = "list" -> "Error listing tasks"
      [] op = "create" -> "Error creating task"
      [] op = "toggle" -> "Error toggling task status"
      [] op = "delete" -> "Error deleting task"

\* A catch that always answers with the generic message
catchMessageGenericOnly(op, e) == GenericMessage(op)

\* catch (e): e instanceof Error ? e.message : '<generic message>'
catchMessage(op, e) == IF e.isError THEN e.message ELSE GenericMessage(op)

\* The positions at which a call waits for the store
RoundTrips == {"listAll", "findAll", "save", "findOne", "update", "deleteOne"}

\* The store call that call r waits for throws e: nothing is written, the
\* operation returns a failure
RepoThrows(r, e) ==
    /\ reqs[r].pc \in RoundTrips
    /\ reqs' = [reqs EXCEPT ![r] =
            [@ EXCEPT !.pc = "done",
                      !.res = Failure(catchMessage(reqs[r].op, e)),
                      !.fault = [call |-> reqs[r].pc, e |-> e]]]
    /\ UNCHANGED <<docs, clock, limit, calc, started, returned>>

(***************************************************************************)
(* controllers/TaskController.ts.  A handler calls the service operation   *)
(* and, once its promise has resolved, sends the response.                 *)
(***************************************************************************)
\* The characters of each message of the program
MessageText(msg) ==
    CASE msg = "title must be a string" ->
            <<"t", "i", "t", "l", "e", " ", "m", "u", "s", "t", " ", "b",
              "e", " ", "a", " ", "s", "t", "r", "i", "n", "g">>
      [] msg = "title is required" ->
            <<"t", "i", "t", "l", "e", " ", "i", "s", " ", "r", "e", "q",
              "u", "i", "r", "e", "d">>
      [] msg = "Task title cannot be empty" ->
            <<"T", "a", "s", "k", " ", "t", "i", "t", "l", "e", " ", "c",
              "a", "n", "n", "o", "t", " ", "b", "e", " ", "e", "m", "p",
              "t", "y">>
      [] msg = "taskId must be a string" ->
            <<"t", "a", "s", "k", "I", "d", " ", "m", "u", "s", "t", " ",
              "b", "e", " ", "a", " ", "s", "t", "r", "i", "n", "g">>
      [] msg = "taskId is required" ->
            <<"t", "a", "s", "k", "I", "d", " ", "i", "s", " ", "r", "e",
              "q", "u", "i", "r", "e", "d">>
      [] msg = "incidentTypeId must match pattern T-INC###" ->
            <<"i", "n", "c", "i", "d", "e", "n", "t", "T", "y", "p", "e",
              "I", "d", " ", "m", "u", "s", "t", " ", "m", "a", "t", "c",
              "h", " ", "p", "a", "t", "t", "e", "r", "n", " ", "T", "-",
              "I", "N", "C", "#", "#", "#">>
      [] msg = "Task not found" ->
            <<"T", "a", "s", "k", " ", "n", "o", "t", " ", "f", "o", "u",
              "n", "d">>
      [] msg = "ID sequence overflow: exceeds 999" ->
            <<"I", "D", " ", "s", "e", "q", "u", "e", "n", "c", "e", " ",
              "o", "v", "e", "r", "f", "l", "o", "w", ":", " ", "e", "x",
              "c", "e", "e", "d", "s", " ", "9", "9", "9">>
      [] msg = "Failed to map persisted task to domain" ->
            <<"F", "a", "i", "l", "e", "d", " ", "t", "o", " ", "m", "a",
              "p", " ", "p", "e", "r", "s", "i", "s", "t", "e", "d", " ",
              "t", "a", "s", "k", " ", "t", "o", " ", "d", "o", "m", "a",
              "i", "n">>
      [] msg = "taskId is null or undefined" ->
            <<"t", "a", "s", "k", "I", "d", " ", "i", "s", " ", "n", "u",
              "l", "l", " ", "o", "r", " ", "u", "n", "d", "e", "f", "i",
              "n", "e", "d">>
      [] msg = "title is null or undefined" ->
            <<"t", "i", "t", "l", "e", " ", "i", "s", " ", "n", "u", "l",
              "l", " ", "o", "r", " ", "u", "n", "d", "e", "f", "i", "n",
              "e", "d">>
      [] msg = "TaskTitle is null or undefined" ->
            <<"T", "a", "s", "k", "T", "i", "t", "l", "e", " ", "i", "s",
              " ", "n", "u", "l", "l", " ", "o", "r", " ", "u", "n", "d",
              "e", "f", "i", "n", "e", "d">>
      [] msg = "TaskStatus is null or undefined" ->
            <<"T", "a", "s", "k", "S", "t", "a", "t", "u", "s", " ", "i",
              "s", " ", "n", "u", "l", "l", " ", "o", "r", " ", "u", "n",
              "d", "e", "f", "i", "n", "e", "d">>
      [] msg = "Database error" ->
            <<"D", "a", "t", "a", "b", "a", "s", "e", " ", "e", "r", "r",
              "o", "r">>
      [] msg = "ns not found" ->
            <<"n", "s", " ", "n", "o", "t", " ", "f", "o", "u", "n", "d">>
      [] msg = "Error listing tasks" ->
            <<"E", "r", "r", "o", "r", " ", "l", "i", "s", "t", "i", "n",
              "g", " ", "t", "a", "s", "k", "s">>
      [] msg = "Error creating task" ->
            <<"E", "r", "r", "o", "r", " ", "c", "r", "e", "a", "t", "i",
              "n", "g", " ", "t", "a", "s", "k">>
      [] msg = "Error toggling task status" ->
            <<"E", "r", "r", "o", "r", " ", "t", "o", "g", "g", "l", "i",
              "n", "g", " ", "t", "a", "s", "k", " ", "s", "t", "a", "t",
              "u", "s">>
      [] msg = "Error deleting task" ->
            <<"E", "r", "r", "o", "r", " ", "d", "e", "l", "e", "t", "i",
              "n", "g", " ", "t", "a", "s", "k">>
      [] msg = "ID is required" ->
            <<"I", "D", " ", "i", "s", " ", "r", "e", "q", "u", "i", "r",
              "e", "d">>

UpperCase == <<"A", "B", "C", "D", "E", "F", "G", "H", "I", "J", "K", "L", "M",
               "N", "O", "P", "Q", "R", "S", "T", "U", "V", "W", "X", "Y", "Z">>
LowerCase == <<"a", "b", "c", "d", "e", "f", "g", "h", "i", "j", "k", "l", "m",
               "n", "o", "p", "q", "r", "s", "t", "u", "v", "w", "x", "y", "z">>

\* String.prototype.toLowerCase
toLowerCase(s) ==
    [i \in 1..Len(s) |->
        IF \E k \in 1..Len(UpperCase) : UpperCase[k] = s[i]
        THEN LowerCase[CHOOSE k \in 1..Len(UpperCase) : UpperCase[k] = s[i]]
        ELSE s[i]]

\* String.prototype.includes
Includes(s, sub) ==
    \E i \in 0..(Len(s) - Len(sub)) : SubSeq(s, i + 1, i + Len(sub)) = sub

NotFoundText == <<"n", "o", "t", " ", "f", "o", "u", "n", "d">>

\* A check that lets the empty string through
IsFalsyUndefinedOnly(v) == v.kind \in {"undefined", "null"}

\* !id
IsFalsy(v) == v.kind \in {"undefined", "null"} \/ (v.kind = "string" /\ v.s = <<>>)

\* list, after the await
listHandler(result) ==
    IF result.kind = "fail" THEN JsonError(500, result.error)
    ELSE JsonList(200, result.list)

\* A status that is 404 for the message 'Task not found' alone
failureStatusExactMatch(error) == IF error = "Task not found" THEN 404 ELSE 400

\* The status of a failed toggle or delete
failureStatus(error) ==
    IF Includes(toLowerCase(MessageText(error)), NotFoundText) THEN 404 ELSE 400

\* A create that picks the status of a failure as toggle and delete do
createHandlerByMessage(result) ==
    IF result.kind = "fail" THEN JsonError(failureStatus(result.error), result.error)
    ELSE JsonDTO(201, result.dto)

\* create, after the await
createHandler(result) ==
    IF result.kind = "fail" THEN JsonError(400, result.error)
    ELSE JsonDTO(201, result.dto)

\* toggle, after the await
toggleHandler(result) ==
    IF result.kind = "fail" THEN JsonError(failureStatus(result.error), result.error)
    ELSE JsonDTO(200, result.dto)

\* delete, after the await
deleteHandler(result) ==
    IF result.kind = "fail" THEN JsonError(failureStatus(result.error), result.error)
    ELSE SendStatus(204)

\* Requests of the run: bodies of POST and :id parameters
NoBody == [kind |-> "undefined", title |-> Undefined]
BodyOf(title) == [kind |-> "object", title |-> title]
Bodies == {NoBody, BodyOf(Str(TitleA)), BodyOf(Str(<<" ">>))}
Params == {Undefined, Str(<<>>), Str(IdOf(1)), Str(IdOf(2)), Str(<<"T", "-", "0", "1">>)}

\* A handler runs in a slot whose previous response has been sent
CanServe(r) ==
    /\ reqs[r].pc # "done"
    /\ started < MaxHttpReqs

ControllerList(r) ==
    /\ CanServe(r)
    /\ StartList(r)

\* const { title } = req.body ?? {}
ControllerCreate(r, body) ==
    /\ CanServe(r)
    /\ StartCreate(r, IF body.kind = "undefined" THEN Undefined ELSE body.title)

\* The answer of toggle and delete to a missing id; the service is not called
RejectMissingId(r, op, id) ==
    /\ CanStart(r)
    /\ started' = started + 1
    /\ reqs' = [reqs EXCEPT ![r] =
            [NewReq EXCEPT !.op = op, !.arg = id, !.pc = "sent", !.sends = @ + 1,
                           !.http = JsonError(400, "ID is required")]]
    /\ UNCHANGED <<docs, clock, limit, calc, returned>>

ControllerToggle(r, id) ==
    /\ CanServe(r)
    /\ IF IsFalsy(id) THEN RejectMissingId(r, "toggle", id) ELSE StartToggle(r, id)

ControllerDelete(r, id) ==
    /\ CanServe(r)
    /\ IF IsFalsy(id) THEN RejectMissingId(r, "delete", id) ELSE StartDelete(r, id)

\* The service promise has resolved: the handler sends its response
ControllerRespond(r) ==
    /\ reqs[r].pc = "done"
    /\ reqs' = [reqs EXCEPT ![r] =
            [@ EXCEPT !.pc = "sent", !.sends = @ + 1,
                      !.http = CASE reqs[r].op = "list" -> listHandler(reqs[r].res)
                                 [] reqs[r].op = "create" -> createHandler(reqs[r].res)
                                 [] reqs[r].op = "toggle" -> toggleHandler(reqs[r].res)
                                 [] reqs[r].op = "delete" -> deleteHandler(reqs[r].res)]]
    /\ UNCHANGED <<docs, clock, limit, calc, started, returned>>

HttpNext ==
    \E r \in Slots :
        \/ ControllerList(r)
        \/ \E body \in Bodies : ControllerCreate(r, body)
        \/ \E id \in Params : ControllerToggle(r, id)
        \/ \E id \in Params : ControllerDelete(r, id)
        \/ ControllerRespond(r)
        \/ RepoListAll(r)
        \/ RepoFindAll(r)
        \/ CreateBuild(r)
        \/ RepoSave(r)
        \/ RepoToggleRead(r)
        \/ RepoToggleWrite(r)
        \/ RepoDelete(r)
        \/ \E e \in Thrown : RepoThrows(r, e)

\* Requests served through the controller by a store that can fail
HttpSpec == Init /\ [][HttpNext]_vars

(***************************************************************************)
(* The controller over any ITaskService: the promise of the service call   *)
(* can also reject, and the handler's catch forwards what was thrown.      *)
(***************************************************************************)
\* A catch that forwards the error and answers 500 as well
catchHandlerAnswering(e) ==
    [sends |-> 1, http |-> JsonError(500, e.message), next |-> <<e>>]

\* catch (e) { next(e); }
catchHandler(e) == [sends |-> 0, http |-> NoResponse, next |-> <<e>>]

\* The service call of handler r throws e: the handler's catch runs
ServiceThrows(r, e) ==
    /\ reqs[r].pc \notin {"idle", "done", "sent"}
    /\ LET caught == catchHandler(e)
       IN  reqs' = [reqs EXCEPT ![r] =
               [@ EXCEPT !.pc = "sent",
                         !.fault = [call |-> "service", e |-> e],
                         !.sends = @ + caught.sends,
                         !.http = caught.http,
                         !.next = @ \o caught.next]]
    /\ UNCHANGED <<docs, clock, limit, calc, started, returned>>

HandlerNext ==
    \E r \in Slots :
        \/ ControllerList(r)
        \/ \E body \in Bodies : ControllerCreate(r, body)
        \/ \E id \in Params : ControllerToggle(r, id)
        \/ \E id \in Params : ControllerDelete(r, id)
        \/ ControllerRespond(r)
        \/ RepoListAll(r)
        \/ RepoFindAll(r)
        \/ CreateBuild(r)
        \/ RepoSave(r)
        \/ RepoToggleRead(r)
        \/ RepoToggleWrite(r)
        \/ RepoDelete(r)
        \/ \E e \in Thrown : RepoThrows(r, e)
        \/ \E e \in Thrown : ServiceThrows(r, e)

\* Requests served through the controller over a service that can throw
HandlerSpec == Init /\ [][HandlerNext]_vars

(***************************************************************************)
(* Direct calls of the mapper, TaskID.create and the identifier generator, *)
(* as the unit tests make them: one call in a run.                         *)
(***************************************************************************)
\* Arguments of the calls
Prefixes == {DEFAULT_PREFIX, <<"I", "N", "C">>, <<"A", ".", "B">>, <<>>}

TaskProps ==
    [taskId : {Str(IdOf(1)), Str(<<" ">> \o IdOf(42) \o <<" ">>), Vo(IdOf(999)),
               Str(<<"T", "-", "0", "1">>)},
     title : {Str(TitleA), Str(TitleB), Vo(<<"a", " ", "b">>), Str(<<" ">>)},
     status : {NoStatus, StatusOf(TRUE), StatusOf(FALSE)},
     DateCreated : {0, 1}]

IdArguments ==
    {Str(IdOf(n)) : n \in 0..MaxSequence}
        \cup {Str(<<" ">> \o IdOf(7) \o <<" ">>), Str(<<"T", "-", "0", "1">>),
              Str(<<"T", "-", "0", "0", "0", "1">>), Str(<<"t", "-", "0", "0", "1">>),
              Str(<<"T", "-", "0", "a", "1">>), Str(<<>>), Undefined, Null,
              Str(<<"0", "0", "1">>), Str(<<"X", "-", "0", "0", "1">>),
              Str(<<"T", "0", "0", "1">>), Str(<<"T", "-", "A", "B", "C">>),
              Str(<<" ", " ", "T", "-", "0", "0", "1", " ", " ">>)}

IdStrings ==
    {IdOf(0), IdOf(1), IdOf(42), IdOf(999), <<>>,
     <<"T", "0", "0", "1">>, <<"T", "-", "0", "1">>, <<"T", "-", "0", "0", "0", "1">>,
     <<"T", "-", "0", "a", "1">>, <<"T", "-", "0", "0", "1", " ">>,
     <<" ", "T", "-", "0", "0", "1">>, <<"t", "-", "0", "0", "1">>,
     <<"X", "-", "0", "0", "1">>, <<"T", "T", "-", "0", "0", "1">>,
     <<"I", "N", "C", "-", "0", "1", "7">>, <<"I", "N", "C", "0", "1", "7">>,
     <<"A", ".", "B", "-", "1", "2", "3">>, <<"A", "x", "B", "-", "1", "2", "3">>,
     <<"-", "0", "0", "9">>, <<"-", "0", "9">>}

IdleStore ==
    /\ docs = {}
    /\ clock = 0
    /\ limit = 1
    /\ reqs = [r \in Slots |-> NewReq]
    /\ started = 0
    /\ returned = <<>>

\* Task.create(props), then TaskMapper.toDomain(TaskMapper.toPersistence(task))
CallRoundTrip(props) ==
    /\ calc = NoCalc
    /\ ~TaskCreate(props).isFailure
    /\ LET task == TaskCreate(props).value IN
       calc' = [fn |-> "roundTrip", task |-> task, back |-> toDomain(toPersistence(task))]
    /\ UNCHANGED <<docs, clock, reqs, limit, started, returned>>

\* TaskID.create(id)
CallTaskIDCreate(id) ==
    /\ calc = NoCalc
    /\ calc' = [fn |-> "TaskID.create", id |-> id, result |-> TaskIDCreate(id)]
    /\ UNCHANGED <<docs, clock, reqs, limit, started, returned>>

\* generateNextId(maxSequence, prefix), and extractSequenceNumber of the
\* identifier it returned
CallGenerateNextId(maxSequence, prefix) ==
    /\ calc = NoCalc
    /\ LET out == generateNextId(maxSequence, prefix) IN
       calc' = [fn |-> "generateNextId", maxSequence |-> maxSequence, prefix |-> prefix,
                out |-> out,
                parsed |-> IF out.threw THEN NoSequence
                           ELSE extractSequenceNumber(out.id, prefix)]
    /\ UNCHANGED <<docs, clock, reqs, limit, started, returned>>

\* extractSequenceNumber(id, prefix)
CallExtractSequenceNumber(id, prefix) ==
    /\ calc = NoCalc
    /\ calc' = [fn |-> "extractSequenceNumber", id |-> id, prefix |-> prefix,
                out |-> extractSequenceNumber(id, prefix)]
    /\ UNCHANGED <<docs, clock, reqs, limit, started, returned>>

CallInit == IdleStore /\ calc = NoCalc

CallNext ==
    \/ \E props \in TaskProps : CallRoundTrip(props)
    \/ \E id \in IdArguments : CallTaskIDCreate(id)
    \/ \E maxSequence \in 0..MaxSequence, prefix \in Prefixes :
          CallGenerateNextId(maxSequence, prefix)
    \/ \E id \in IdStrings, prefix \in Prefixes : CallExtractSequenceNumber(id, prefix)

CallSpec == CallInit /\ [][CallNext]_vars



(***************************************************************************)
(* Vocabulary of the properties.                                           *)
(***************************************************************************)
\* s is T-NNN with three decimal digits
IsIdString(s) ==
    /\ Len(s) = 5
    /\ s[1] = "T" /\ s[2] = "-"
    /\ \A i \in 3..5 : s[i] \in {DigitChars[k] : k \in 1..10}

\* The sequence number NNN of the identifier T-NNN
SeqOfId(id) == 100 * DigitVal(id[3]) + 10 * DigitVal(id[4]) + DigitVal(id[5])

\* The largest sequence number among the stored identifiers, 0 for none
StoreMaxSeq(store) ==
    LET seqs == {SeqOfId(d.taskId) : d \in {x \in store : IsIdString(x.taskId)}}
    IN  IF seqs = {} THEN 0 ELSE CHOOSE m \in seqs : \A n \in seqs : n <= m

\* Call r returns in this step, after at least one repository call
Returns(r, op) ==
    /\ reqs[r].op = op
    /\ reqs[r].pc \notin {"idle", "done"}
    /\ reqs'[r].pc = "done"

ValidTitle(v) == v.kind = "string" /\ Trim(v.s) # <<>>

OverflowMessage == "ID sequence overflow: exceeds 999"

\* C1: in sequential execution, createTask with a valid title on a store
\* whose largest sequence number is m < 999 returns T-<m+1>, three digits,
\* whether or not smaller numbers are unused (empty store: T-001).
C1_NextAfterMax ==
    [][\A r \in Slots :
          (Returns(r, "create") /\ ValidTitle(reqs[r].arg) /\ StoreMaxSeq(docs) < MaxSequence)
          => /\ reqs'[r].res.kind = "ok"
             /\ reqs'[r].res.dto.id = IdOf(StoreMaxSeq(docs) + 1)]_vars

\* C1 witness: the gap at T-002 is not filled, T-004 is returned
C1_Witness ==
    \E r \in Slots :
        /\ limit = 1
        /\ reqs[r].op = "create" /\ reqs[r].pc = "done" /\ reqs[r].res.kind = "ok"
        /\ reqs[r].res.dto.id = IdOf(4)
        /\ \E d \in docs : d.taskId = IdOf(1)
        /\ \E d \in docs : d.taskId = IdOf(3)
        /\ ~\E d \in docs : d.taskId = IdOf(2)

\* C2 as claimed: in a sequential run no createTask returns an identifier
\* that an earlier createTask of the run returned.
C2_NeverReturnedTwice ==
    limit = 1 => \A i, j \in 1..Len(returned) : i # j => returned[i] # returned[j]

\* C2 as amended: in a sequential run createTask returns an identifier it
\* returned before only when no stored task holds it any more and it lies
\* above every stored sequence number.
C2_ReusedOnlyAboveMax ==
    [][\A r \in Slots :
          (Returns(r, "create") /\ reqs'[r].res.kind = "ok"
              /\ \E i \in 1..Len(returned) : returned[i] = reqs'[r].res.dto.id)
          => /\ Matching(docs, reqs'[r].res.dto.id) = {}
             /\ StoreMaxSeq(docs) < SeqOfId(reqs'[r].res.dto.id)]_vars

\* C2 witness: an identifier has been returned twice in a sequential run
C2_Witness ==
    /\ limit = 1
    /\ \E i, j \in 1..Len(returned) : i # j /\ returned[i] = returned[j]

\* Calls a and b are createTask calls that allocated the same identifier,
\* a's save ran inside b's read-to-save window, b's save ran last
SameIdRace(a, b) ==
    /\ a # b
    /\ reqs[a].op = "create" /\ reqs[b].op = "create"
    /\ reqs[a].pc = "done" /\ reqs[b].pc = "done"
    /\ "save" \in reqs[a].calls /\ "save" \in reqs[b].calls
    /\ reqs[a].newId = reqs[b].newId
    /\ reqs[b].seen = <<"save">> /\ reqs[b].since = <<>>
    /\ reqs[a].since = <<"save">>

\* C3: two createTask calls that both read before either saves allocate
\* the same identifier; both return success with it, and the store holds a
\* single record under it, with the title of the save that ran last.
C3_LastSaveWins ==
    \A a, b \in Slots :
        SameIdRace(a, b)
        => /\ reqs[a].res.kind = "ok" /\ reqs[a].res.dto.id = reqs[a].newId
           /\ reqs[b].res.kind = "ok" /\ reqs[b].res.dto.id = reqs[b].newId
           /\ reqs[a].res.dto.title = reqs[a].title
           /\ Cardinality(Matching(docs, reqs[b].newId)) = 1
           /\ \A d \in Matching(docs, reqs[b].newId) : d.title = reqs[b].title

\* C3 witness: the race happened between two creates with different titles
C3_Witness ==
    \E a, b \in Slots :
        /\ SameIdRace(a, b)
        /\ reqs[a].title # reqs[b].title
        /\ reqs[a].res.kind = "ok" /\ reqs[b].res.kind = "ok"
        /\ reqs[a].res.dto.id = reqs[b].res.dto.id

\* C4: with 999 as the largest stored sequence number, createTask with a
\* valid title returns the overflow failure, never calls save and leaves
\* the store as it is.
C4_OverflowFails ==
    [][\A r \in Slots :
          (Returns(r, "create") /\ ValidTitle(reqs[r].arg) /\ reqs[r].pc = "findAll"
              /\ StoreMaxSeq(docs) = MaxSequence)
          => /\ reqs'[r].res = Failure(OverflowMessage)
             /\ "save" \notin reqs'[r].calls
             /\ docs' = docs]_vars

\* C4 witness: a createTask has failed on a store holding T-999
C4_Witness ==
    \E r \in Slots :
        /\ reqs[r].op = "create" /\ reqs[r].pc = "done"
        /\ reqs[r].res = Failure(OverflowMessage)
        /\ \E d \in docs : d.taskId = IdOf(MaxSequence)

NotFound == Failure("Task not found")

\* Calls a and b are successful toggles of the same task, b's write came
\* after a's, and no other call wrote that task since a's read
TogglePair(a, b) ==
    /\ a # b
    /\ reqs[a].op = "toggle" /\ reqs[b].op = "toggle"
    /\ reqs[a].pc = "done" /\ reqs[b].pc = "done"
    /\ reqs[a].res.kind = "ok" /\ reqs[b].res.kind = "ok"
    /\ reqs[a].arg = reqs[b].arg
    /\ reqs[a].seen = <<>>
    /\ reqs[a].since = <<"toggle">> /\ reqs[b].since = <<>>

\* C5: two successful toggles of a stored task, one after the other with
\* nothing else on that task in between, leave its status as it was: the
\* first returns the negated status, the second the original one.
C5_ToggleTwiceRestores ==
    \A a, b \in Slots :
        (limit = 1 /\ TogglePair(a, b) /\ reqs[b].seen = <<>>)
        => /\ reqs[a].res.dto.status = ~reqs[a].cur
           /\ reqs[b].res.dto.status = reqs[a].cur
           /\ \A d \in Matching(docs, reqs[a].arg.s) : d.status = reqs[a].cur

\* C5 witness: a task that was completed has been toggled twice in a row
C5_Witness ==
    \E a, b \in Slots :
        /\ limit = 1 /\ TogglePair(a, b) /\ reqs[b].seen = <<>>
        /\ reqs[a].cur = TRUE
        /\ Matching(docs, reqs[a].arg.s) # {}

\* C6: two overlapping toggles of a task that both read before either
\* writes read the same status and write the same flipped value: both
\* return success with that status and the stored status is flipped once.
C6_OverlappingTogglesFlipOnce ==
    \A a, b \in Slots :
        (TogglePair(a, b) /\ reqs[b].seen = <<"toggle">>)
        => /\ reqs[a].cur = reqs[b].cur
           /\ reqs[a].res.dto.status = ~reqs[a].cur
           /\ reqs[b].res.dto.status = ~reqs[a].cur
           /\ \A d \in Matching(docs, reqs[a].arg.s) : d.status = ~reqs[a].cur

\* C6 witness: two toggles overlapped on a stored task
C6_Witness ==
    \E a, b \in Slots :
        /\ TogglePair(a, b) /\ reqs[b].seen = <<"toggle">>
        /\ Matching(docs, reqs[a].arg.s) # {}

\* A deleteTask removed the task between the read and the write of toggle
\* call q, and no createTask stored it again in that window
DeletedUnderToggle(q) ==
    q.op = "toggle" /\ q.seen # <<>> /\ q.seen[Len(q.seen)] = "delete"

\* C7 as claimed: a toggle whose task is deleted between its read and its
\* write does not report a failure to its caller.
C7_DeletedToggleSucceeds ==
    \A r \in Slots :
        (reqs[r].pc = "done" /\ DeletedUnderToggle(reqs[r])) => reqs[r].res.kind = "ok"

\* C7 as amended: the write of such a toggle matches no record and changes
\* nothing, and the toggle returns the failure 'Task not found'.
C7_DeletedToggleNotFound ==
    [][\A r \in Slots :
          (Returns(r, "toggle") /\ reqs[r].pc = "update" /\ DeletedUnderToggle(reqs[r]))
          => /\ docs' = docs
             /\ reqs'[r].res = NotFound]_vars

\* C7 witness: a toggle has returned after its task was deleted under it
C7_Witness ==
    \E r \in Slots :
        /\ reqs[r].pc = "done" /\ DeletedUnderToggle(reqs[r])
        /\ reqs[r].res = NotFound
        /\ Matching(docs, reqs[r].arg.s) = {}

WellFormedId(v) == v.kind = "string" /\ IsIdString(v.s)

\* C8: toggleTaskStatus with a well-formed identifier that no stored record
\* has returns 'Task not found' after the read, without a write, and the
\* store is unchanged.
C8_ToggleMissing ==
    [][\A r \in Slots :
          (reqs[r].op = "toggle" /\ reqs[r].pc = "findOne" /\ reqs'[r] # reqs[r]
              /\ WellFormedId(reqs[r].arg) /\ Matching(docs, reqs[r].arg.s) = {})
          => /\ reqs'[r].pc = "done"
             /\ reqs'[r].res = NotFound
             /\ docs' = docs]_vars

\* C8 witness: a toggle of an identifier that was never stored has failed
C8_Witness ==
    \E r \in Slots :
        /\ reqs[r].op = "toggle" /\ reqs[r].pc = "done"
        /\ WellFormedId(reqs[r].arg) /\ reqs[r].seen = <<>>
        /\ reqs[r].res = NotFound
        /\ docs # {}

\* C9: deleteTask with a well-formed identifier returns success with value
\* true exactly when one record, the one stored under the identifier, was
\* removed, every other record staying as it was; when no record matches it
\* returns 'Task not found' and the store is unchanged.
C9_DeleteRemovesExactlyOne ==
    [][\A r \in Slots :
          (Returns(r, "delete") /\ WellFormedId(reqs[r].arg))
          => LET hit == Matching(docs, reqs[r].arg.s) IN
             /\ reqs'[r].res = OkValue(TRUE)
                  <=> \E d \in hit : docs' = docs \ {d} /\ docs' # docs
             /\ hit = {} => (reqs'[r].res = NotFound /\ docs' = docs)
             /\ hit # {} => reqs'[r].res = OkValue(TRUE)
             /\ docs \ hit = docs' \ hit]_vars

\* C9 witness: a delete has removed its record and left another one stored
C9_Witness ==
    \E r \in Slots :
        /\ reqs[r].op = "delete" /\ reqs[r].pc = "done"
        /\ WellFormedId(reqs[r].arg)
        /\ reqs[r].res = OkValue(TRUE)
        /\ Matching(docs, reqs[r].arg.s) = {}
        /\ docs # {}

\* An id that is no string, is empty after trimming, or does not have the
\* identifier format after trimming
InvalidId(v) ==
    \/ v.kind # "string"
    \/ Trim(v.s) = <<>>
    \/ ~IsIdString(Trim(v.s))

ValidationMessages ==
    {"taskId must be a string", "taskId is required",
     "incidentTypeId must match pattern T-INC###"}

\* C10: toggleTaskStatus and deleteTask given such an id return a
\* validation failure at once, invoke no repository method and leave the
\* store unchanged.
C10_InvalidIdRejected ==
    [][\A r \in Slots :
          (reqs'[r].op \in {"toggle", "delete"} /\ InvalidId(reqs'[r].arg))
          => /\ reqs'[r].pc = "done"
             /\ reqs'[r].res.kind = "fail"
             /\ reqs'[r].res.error \in ValidationMessages
             /\ reqs'[r].calls = {}
             /\ reqs'[r] # reqs[r] => docs' = docs]_vars

\* C10 witness: a toggle and a delete were rejected for their ids
C10_Witness ==
    \E a, b \in Slots :
        /\ reqs[a].op = "toggle" /\ reqs[b].op = "delete"
        /\ reqs[a].pc = "done" /\ reqs[b].pc = "done"
        /\ InvalidId(reqs[a].arg) /\ InvalidId(reqs[b].arg)
        /\ reqs[a].arg.kind = "string" /\ Trim(reqs[a].arg.s) # <<>>
        /\ reqs[b].arg.kind # "string"
        /\ reqs[a].res.kind = "fail" /\ reqs[b].res.kind = "fail"
        /\ docs # {}

\* C11: createTask with a title that is not a string returns 'title must be
\* a string', and with a string that is empty after trimming 'title is
\* required'; it calls neither findAll nor save, allocates no identifier and
\* leaves the store unchanged.
C11_InvalidTitleRejected ==
    [][\A r \in Slots :
          (reqs'[r].op = "create" /\ ~ValidTitle(reqs'[r].arg))
          => /\ reqs'[r].pc = "done"
             /\ reqs'[r].res = IF reqs'[r].arg.kind # "string"
                               THEN Failure("title must be a string")
                               ELSE Failure("title is required")
             /\ reqs'[r].calls = {}
             /\ reqs'[r].newId = <<>>
             /\ reqs'[r] # reqs[r] => (docs' = docs /\ returned' = returned)]_vars

\* C11 witness: a createTask was rejected for a title that is no string and
\* another for a blank title, on a store that holds tasks
C11_Witness ==
    \E a, b \in Slots :
        /\ reqs[a].op = "create" /\ reqs[b].op = "create"
        /\ reqs[a].pc = "done" /\ reqs[b].pc = "done"
        /\ reqs[a].arg.kind # "string"
        /\ reqs[b].arg.kind = "string" /\ Trim(reqs[b].arg.s) = <<>>
        /\ reqs[a].res = Failure("title must be a string")
        /\ reqs[b].res = Failure("title is required")
        /\ docs # {}

\* C12: whichever repository call of listTasks, createTask, toggleTaskStatus
\* or deleteTask throws, the operation returns a failure result: with the
\* message of the Error thrown, or with the operation's generic message when
\* the thrown value is no Error.  Every call that has ended has a result.
C12_ThrowBecomesFailure ==
    \A r \in Slots :
        /\ reqs[r].fault # NoFault
           => /\ reqs[r].pc \in {"done", "sent"}
              /\ reqs[r].res.kind = "fail"
              /\ reqs[r].res.error = IF reqs[r].fault.e.isError
                                     THEN reqs[r].fault.e.message
                                     ELSE GenericMessage(reqs[r].op)
        /\ reqs[r].pc = "done" => reqs[r].res.kind \in {"ok", "fail"}

\* C12 witness: the save of a createTask threw an Error and the second round
\* trip of a toggleTaskStatus threw a value that is no Error; both returned
\* failures
C12_Witness ==
    \E a, b \in Slots :
        /\ reqs[a].op = "create" /\ reqs[a].fault.call = "save"
        /\ reqs[a].fault.e.isError
        /\ reqs[a].res = Failure(reqs[a].fault.e.message)
        /\ reqs[b].op = "toggle" /\ reqs[b].fault.call = "update"
        /\ ~reqs[b].fault.e.isError
        /\ reqs[b].res = Failure("Error toggling task status")

\* A PATCH or DELETE request whose service call failed has been answered
FailedById(q) ==
    q.pc = "sent" /\ q.op \in {"toggle", "delete"} /\ q.res.kind = "fail"

\* The failure came from a store call that threw an Error whose message has
\* the words 'not found' in it, in any letter case
ThrewNotFoundWords(q) ==
    /\ q.fault # NoFault
    /\ q.fault.e.isError
    /\ Includes(toLowerCase(MessageText(q.fault.e.message)), NotFoundText)

\* C13 as claimed: PATCH and DELETE /tasks/:id answer a failed service call
\* with 404 exactly when it is the service's not-found failure (no record
\* under the identifier), and with 400 for every other failure, storage
\* failures included whatever their message.
C13_NotFoundOnlyWhenAbsent ==
    \A r \in Slots :
        FailedById(reqs[r])
        => reqs[r].http.status =
              IF reqs[r].fault = NoFault /\ reqs[r].res = NotFound THEN 404 ELSE 400

\* C13 as amended: the answer is 404 for the service's not-found failure and
\* also for a storage failure whose message contains 'not found'; it is 400
\* for every other failure; the body carries the service's message.
C13_NotFoundByMessage ==
    \A r \in Slots :
        FailedById(reqs[r])
        => /\ reqs[r].http.error = reqs[r].res.error
           /\ reqs[r].http.status =
                 IF reqs[r].res = NotFound \/ ThrewNotFoundWords(reqs[r])
                 THEN 404 ELSE 400

\* C13 witness: a toggle of a stored task was answered 404 because the store
\* threw 'ns not found', and a delete with a malformed id was answered 400
C13_Witness ==
    \E a, b \in Slots :
        /\ FailedById(reqs[a]) /\ reqs[a].op = "toggle"
        /\ ThrewNotFoundWords(reqs[a])
        /\ Matching(docs, reqs[a].arg.s) # {}
        /\ reqs[a].http.status = 404
        /\ FailedById(reqs[b]) /\ reqs[b].op = "delete"
        /\ reqs[b].calls = {}
        /\ reqs[b].http.status = 400

\* C14: POST /tasks answers 201 with the DTO when createTask succeeds and
\* 400 with {error} for every failure of createTask (validation, overflow,
\* storage failure); GET /tasks answers 200 with the DTO array when
\* listTasks succeeds and 500 with {error} when it fails.
C14_CreateAndListStatus ==
    \A r \in Slots :
        /\ (reqs[r].pc = "sent" /\ reqs[r].op = "create")
           => /\ reqs[r].res.kind = "ok"
                 => /\ reqs[r].http = JsonDTO(201, reqs[r].res.dto)
                    /\ reqs[r].http.dto.id = reqs[r].newId
                    /\ reqs[r].http.dto.title = Trim(reqs[r].arg.s)
              /\ reqs[r].res.kind # "ok"
                 => reqs[r].http = JsonError(400, reqs[r].res.error)
              /\ (~ValidTitle(reqs[r].arg) \/ reqs[r].fault # NoFault
                     \/ reqs[r].res = Failure(OverflowMessage))
                 => reqs[r].http.status = 400
        /\ (reqs[r].pc = "sent" /\ reqs[r].op = "list")
           => /\ reqs[r].res.kind = "ok" => reqs[r].http = JsonList(200, reqs[r].res.list)
              /\ reqs[r].res.kind # "ok" => reqs[r].http = JsonError(500, reqs[r].res.error)
              /\ reqs[r].fault # NoFault => reqs[r].http.status = 500

\* C14 witness: a POST was answered 400 after the store threw 'ns not found'
\* and a GET was answered 200 with a task in the array
C14_Witness ==
    \E a, b \in Slots :
        /\ reqs[a].pc = "sent" /\ reqs[a].op = "create"
        /\ ThrewNotFoundWords(reqs[a])
        /\ reqs[a].http.status = 400
        /\ reqs[b].pc = "sent" /\ reqs[b].op = "list"
        /\ reqs[b].http.status = 200
        /\ reqs[b].http.list # <<>>

\* The :id path parameter is missing or empty
MissingId(v) == v = Undefined \/ v = Str(<<>>)

\* C15: when the :id path parameter is missing or empty, the PATCH and
\* DELETE handlers answer 400 with {error: 'ID is required'} without calling
\* the service: no repository call is made and the store is unchanged.
C15_MissingIdRejected ==
    [][\A r \in Slots :
          (reqs'[r].op \in {"toggle", "delete"} /\ MissingId(reqs'[r].arg))
          => /\ reqs'[r].pc = "sent"
             /\ reqs'[r].http = JsonError(400, "ID is required")
             /\ reqs'[r].res = NoRes
             /\ reqs'[r].calls = {}
             /\ reqs'[r] # reqs[r] => docs' = docs]_vars

\* C15 witness: a PATCH without id and a DELETE with an empty id were
\* answered 400 on a store that holds tasks
C15_Witness ==
    \E a, b \in Slots :
        /\ reqs[a].op = "toggle" /\ reqs[a].arg = Undefined
        /\ reqs[b].op = "delete" /\ reqs[b].arg = Str(<<>>)
        /\ reqs[a].pc = "sent" /\ reqs[b].pc = "sent"
        /\ reqs[a].http = JsonError(400, "ID is required")
        /\ reqs[b].http = JsonError(400, "ID is required")
        /\ docs # {}

C17_SequenceInRange ==
    (calc.fn = "TaskID.create" /\ ~calc.result.isFailure)
    => /\ IsIdString(calc.result.value)
       /\ SeqOfId(calc.result.value) \in 1..MaxSequence

\* C18: for every prefix P and every n from 1 to 999, the identifier
\* generateNextId(n - 1, P) returns is parsed back by extractSequenceNumber
\* with P to n.
C18_NextIdParsesBack ==
    (calc.fn = "generateNextId" /\ calc.maxSequence + 1 \in 1..999)
    => /\ ~calc.out.threw
       /\ calc.parsed = calc.maxSequence + 1

\* C18 witness: T-042's successor under a prefix with a dot in it
C18_Witness ==
    /\ calc.fn = "generateNextId"
    /\ calc.prefix = <<"A", ".", "B">>
    /\ calc.maxSequence = 41
    /\ calc.out.id = <<"A", ".", "B", "-", "0", "4", "2">>
    /\ calc.parsed = 42

\* C19: for every prefix P, generateNextId(999, P) fails with the overflow
\* error, generateNextId(m, P) succeeds for every m from 0 to 998, and
\* generateNextId(0, P) is generateFirstId(P).
C19_OverflowBoundary ==
    calc.fn = "generateNextId"
    => /\ calc.maxSequence = 999
          => (calc.out.threw /\ calc.out.message = OverflowMessage)
       /\ calc.maxSequence \in 0..998 => ~calc.out.threw
       /\ calc.maxSequence = 0 => calc.out.id = generateFirstId(calc.prefix)

\* C19 witness: generateNextId(999, 'INC') threw the overflow error
C19_Witness ==
    /\ calc.fn = "generateNextId"
    /\ calc.prefix = <<"I", "N", "C">>
    /\ calc.maxSequence = 999
    /\ calc.out.threw

\* s is P, a hyphen and three decimal digits
HasFormat(s, P) ==
    /\ Len(s) = Len(P) + 4
    /\ SubSeq(s, 1, Len(P)) = P
    /\ s[Len(P) + 1] = "-"
    /\ \A i \in (Len(P) + 2)..(Len(P) + 4) : s[i] \in {DigitChars[k] : k \in 1..10}

\* The number the last three characters of s spell
SuffixValue(s) ==
    100 * DigitVal(s[Len(s) - 2]) + 10 * DigitVal(s[Len(s) - 1]) + DigitVal(s[Len(s)])

\* C20: extractSequenceNumber(s, P) returns none for every string s that is
\* not P, a hyphen and three digits (wrong prefix, no hyphen, fewer or more
\* than three digits, a non-digit, the empty string), and the number the
\* three digits spell for every string that is.
C20_ExtractMatchesFormat ==
    calc.fn = "extractSequenceNumber"
    => calc.out = IF HasFormat(calc.id, calc.prefix) THEN SuffixValue(calc.id)
                  ELSE NoSequence

\* C20 witness: 'AxB-123' is not an identifier of the prefix 'A.B'
C20_Witness ==
    /\ calc.fn = "extractSequenceNumber"
    /\ calc.prefix = <<"A", ".", "B">>
    /\ calc.id = <<"A", "x", "B", "-", "1", "2", "3">>
    /\ calc.out = NoSequence

\* C21: TaskID.create fails for null and undefined and for every string
\* whose trimmed form is not T-, then three digits (no prefix, another
\* prefix, no hyphen, fewer or more than three digits, a non-digit in the
\* suffix); for every string whose trimmed form is well formed it succeeds
\* and the identifier's string is the trimmed input.
C21_CreateAcceptsTrimmedFormat ==
    calc.fn = "TaskID.create"
    => IF calc.id.kind # "string" THEN calc.result.isFailure
       ELSE IF IsIdString(Trim(calc.id.s))
            THEN ~calc.result.isFailure /\ calc.result.value = Trim(calc.id.s)
            ELSE calc.result.isFailure

\* C21 witness: '  T-001  ' was accepted as T-001
C21_Witness ==
    /\ calc.fn = "TaskID.create"
    /\ calc.id = Str(<<" ", " ", "T", "-", "0", "0", "1", " ", " ">>)
    /\ calc.result = Ok(IdOf(1))

DTOOf(d) ==
    [id |-> d.taskId, title |-> d.title, status |-> d.status,
     dateCreated |-> toISOString(d.dateCreated)]

\* Call r is a listTasks that the store answers in this step
ListAnswered(r) ==
    /\ reqs[r].op = "list" /\ reqs[r].pc = "listAll"
    /\ reqs'[r].pc = "done" /\ reqs'[r].fault = NoFault

C24_CreateAddsOneRecord ==
    [][\A r \in Slots :
          (limit = 1 /\ Returns(r, "create") /\ reqs'[r].res.kind = "ok")
          => \E n \in docs' :
               /\ docs' \ docs = {n}
               /\ docs \subseteq docs'
               /\ Matching(docs, reqs[r].newId) = {}
               /\ n.taskId = reqs[r].newId
               /\ n.status = FALSE
               /\ n.title = Trim(reqs[r].arg.s)
               /\ reqs'[r].res.dto = DTOOf(n)]_vars

\* C24 witness: a padded title was stored trimmed next to the earlier records
C24_Witness ==
    \E r \in Slots :
        /\ limit = 1
        /\ reqs[r].op = "create" /\ reqs[r].pc = "done" /\ reqs[r].res.kind = "ok"
        /\ reqs[r].arg = Str(TitleB)
        /\ reqs[r].since = <<>>
        /\ \E n \in docs : /\ n.taskId = reqs[r].newId /\ n.title = <<"b">>
                           /\ n.status = FALSE /\ reqs[r].res.dto = DTOOf(n)
        /\ {InitDoc(1), InitDoc(3)} \subseteq docs

\* C25: a successful toggleTaskStatus(id) changes only the status of the
\* record stored under id, to the negation of the status it read; that
\* record's identifier, title and dateCreated and every other record are
\* unchanged.
C25_ToggleChangesOnlyStatus ==
    [][\A r \in Slots :
          (Returns(r, "toggle") /\ reqs'[r].res.kind = "ok")
          => \E d \in Matching(docs, reqs[r].arg.s) :
               /\ reqs[r].pc = "update"
               /\ docs' = (docs \ {d}) \cup {[d EXCEPT !.status = ~reqs[r].cur]}
               /\ reqs'[r].res.dto = DTOOf([d EXCEPT !.status = ~reqs[r].cur])]_vars

\* C25 witness: T-001 was toggled to completed next to a completed T-003
\* created at the same time, and T-003 is as it was
C25_Witness ==
    \E r \in Slots :
        /\ reqs[r].op = "toggle" /\ reqs[r].pc = "done" /\ reqs[r].res.kind = "ok"
        /\ reqs[r].since = <<>>
        /\ reqs[r].cur = FALSE
        /\ docs = {[InitDoc(1) EXCEPT !.status = TRUE], InitDoc(3)}

\* Handler r has been entered and has not returned
Handling(r) == reqs[r].pc \notin {"idle", "sent"}

\* The completions of handler r: responses sent and calls of next
Completions(r) == reqs[r].sends + Len(reqs[r].next)

\* C26: every handler (list, create, toggle, delete) that has returned has
\* completed exactly once, whatever the outcome of its service call: it sent
\* one response or called next(err) once, never both and never neither, and
\* nothing before it returned; when the service call threw, next was called
\* with what was thrown and no response was sent.
C26_ExactlyOneCompletion ==
    \A r \in Slots :
        /\ Handling(r) => Completions(r) = 0
        /\ reqs[r].pc = "sent" => Completions(r) = 1
        /\ (reqs[r].pc = "sent" /\ reqs[r].fault.call = "service")
           => /\ reqs[r].next = <<reqs[r].fault.e>>
              /\ reqs[r].sends = 0 /\ reqs[r].http = NoResponse
        /\ (reqs[r].pc = "sent" /\ reqs[r].fault.call # "service")
           => /\ reqs[r].next = <<>>
              /\ reqs[r].sends = 1 /\ reqs[r].http # NoResponse

\* C26 witness: one handler's service call threw and next got the error,
\* the other handler sent a response after a failure of the store
C26_Witness ==
    \E r, x \in Slots :
        /\ reqs[r].pc = "sent" /\ reqs[r].fault.call = "service"
        /\ reqs[r].next = <<ErrorOf("Database error")>> /\ reqs[r].sends = 0
        /\ reqs[x].pc = "sent" /\ reqs[x].fault.call \in RoundTrips
        /\ reqs[x].sends = 1 /\ reqs[x].next = <<>>

\* C27: in every reachable state, under any interleaving of createTask,
\* toggleTaskStatus and deleteTask (two creates that allocate the same
\* identifier included), the store holds at most one record per identifier.
C27_OneRecordPerId ==
    \A d, x \in docs : d.taskId = x.taskId => d = x

\* C27 witness: two overlapping creates allocated and saved under the same
\* identifier with different titles, and one record holds it
C27_Witness ==
    /\ reqs[1].op = "create" /\ reqs[1].pc = "done" /\ reqs[1].res.kind = "ok"
    /\ reqs[2].op = "create" /\ reqs[2].pc = "done" /\ reqs[2].res.kind = "ok"
    /\ reqs[1].newId = reqs[2].newId
    /\ reqs[1].title # reqs[2].title
    /\ Cardinality(Matching(docs, reqs[1].newId)) = 1

\* C28: in sequential execution a successful createTask never overwrites an
\* existing record: the identifier it saves under is the taskId of no record
\* in the store at the time of the save, whatever the store holds, records
\* that findAll drops included.
C28_CreateNeverOverwrites ==
    [][\A r \in Slots :
          (limit = 1 /\ Returns(r, "create") /\ reqs'[r].res.kind = "ok")
          => \A d \in docs : d.taskId # reqs[r].newId]_vars

\* The identifiers that have a record in store
StoredIds(store) == {d.taskId : d \in store}

\* Call r of operation op takes a step
StepOf(r, op) == reqs[r].op = op /\ reqs[r].pc \notin {"idle", "done", "sent"}
                 /\ reqs'[r].pc # reqs[r].pc

\* Call q deleted its task and no createTask has saved under that
\* identifier since
DeletedAndNotCreated(q) ==
    /\ q.op = "delete" /\ q.pc = "done" /\ q.res.kind = "ok"
    /\ \A i \in 1..Len(q.since) : q.since[i] # "save"

\* C29: toggleTaskStatus never creates a record: under any interleaving, no
\* step of a toggle adds an identifier to the store, and once a deleteTask(id)
\* has removed the record and no createTask has followed, no record with
\* that identifier exists, also when a toggle that read the record before
\* the delete writes after it.
C29_ToggleNeverCreates ==
    /\ [][\A r \in Slots : StepOf(r, "toggle") => StoredIds(docs') \subseteq StoredIds(docs)]_vars
    /\ [](\A r \in Slots :
            DeletedAndNotCreated(reqs[r]) => Matching(docs, reqs[r].arg.s) = {})

\* C29 witness: a toggle read T-001, a delete removed it, the toggle wrote
\* afterwards, and no record T-001 is stored
C29_Witness ==
    \E r, x \in Slots :
        /\ DeletedAndNotCreated(reqs[r]) /\ reqs[r].arg.s = IdOf(1)
        /\ reqs[x].pc = "done" /\ DeletedUnderToggle(reqs[x]) /\ reqs[x].arg.s = IdOf(1)
        /\ IdOf(1) \notin StoredIds(docs)

\* C30: for every id that passes validateTaskId, toggleTaskStatus and
\* deleteTask query the repository with the trimmed identifier: when the
\* trimmed id is the identifier of a stored task, the repository call acts
\* on that task and the call does not answer 'Task not found'.
C30_QueriesCanonicalId ==
    [][\A r \in Slots :
          (/\ \/ StepOf(r, "toggle") /\ reqs[r].pc = "findOne"
              \/ StepOf(r, "delete") /\ reqs[r].pc = "deleteOne"
           /\ Matching(docs, Trim(reqs[r].arg.s)) # {})
          => /\ reqs'[r].res # NotFound
             /\ reqs[r].op = "delete" => Matching(docs', Trim(reqs[r].arg.s)) = {}]_vars

=============================================================================
